---- MODULE Spec2Model ----
(***************************************************************************)
(* Model of the incremental Matroska/EBML metadata parser of               *)
(* ext/adaptivedemux2/gstmatroska.c (gst_matroska_parser_entry and the     *)
(* functions it calls) together with the GstAdapter window it reads.       *)
(*                                                                         *)
(* Representation of the C integers:                                       *)
(*   - a guint8 is a number in 0..255;                                     *)
(*   - a guint64 VALUE read from the stream (time scale, duration, cue     *)
(*     fields, the raw size field) is its 8 big-endian bytes, because the  *)
(*     values of the format exceed the integers of the model checker;      *)
(*   - a guint32 element id is its 4 big-endian bytes;                     *)
(*   - byte counts and offsets (len, offset, consume, element sizes) are   *)
(*     naturals; a size of 2^30 or more, the unknown-length value          *)
(*     0x7FFFFFFFFFFFFFFF included, is held as SizeCap.  The code only     *)
(*     adds such a size to small offsets, subtracts it again and compares  *)
(*     it with byte counts of the window, all of which are far below       *)
(*     SizeCap and far from 2^64, so every comparison keeps its outcome.   *)
(***************************************************************************)
EXTENDS Integers, Sequences, FiniteSets, TLC

(***************************************************************************)
(* Enumerations of gstmatroska.h                                           *)
(***************************************************************************)
GST_MATROSKA_PARSER_OK == 0
GST_MATROSKA_PARSER_DONE == 1
GST_MATROSKA_PARSER_NOT_SUPPORTED == 2
GST_MATROSKA_PARSER_ERROR_PARAM == 3
GST_MATROSKA_PARSER_INSUFFICIENT_DATA == 4
GST_MATROSKA_PARSER_ERROR == 5

GST_MATROSKA_PARSER_STATUS_INIT == 0
GST_MATROSKA_PARSER_STATUS_HEADER == 1
GST_MATROSKA_PARSER_STATUS_DATA == 2
GST_MATROSKA_PARSER_STATUS_FINISHED == 3

(***************************************************************************)
(* Element ids of gstmatroska.c, as the 4 bytes of a guint32               *)
(***************************************************************************)
GST_EBML_ID_HEADER == <<26, 69, 223, 163>>
GST_MATROSKA_ID_SEGMENT == <<24, 83, 128, 103>>
GST_MATROSKA_ID_CLUSTER == <<31, 67, 182, 117>>
GST_MATROSKA_ID_SEEKHEAD == <<17, 77, 155, 116>>
GST_MATROSKA_ID_SEGMENTINFO == <<21, 73, 169, 102>>
GST_MATROSKA_ID_CUES == <<28, 83, 187, 107>>
GST_MATROSKA_ID_TIMECODESCALE == <<0, 42, 215, 177>>
GST_MATROSKA_ID_DURATION == <<0, 0, 68, 137>>
GST_MATROSKA_ID_POINTENTRY == <<0, 0, 0, 187>>
GST_MATROSKA_ID_CUETIME == <<0, 0, 0, 179>>
GST_MATROSKA_ID_CUETRACKPOSITION == <<0, 0, 0, 183>>
GST_MATROSKA_ID_CUETRACK == <<0, 0, 0, 247>>
GST_MATROSKA_ID_CUECLUSTERPOSITION == <<0, 0, 0, 241>>

(***************************************************************************)
(* 64-bit values as 8 big-endian bytes                                     *)
(***************************************************************************)
Zero64 == <<0, 0, 0, 0, 0, 0, 0, 0>>

\* the guint32 a guint64 is truncated to by the assignment p_info->id = ...
Low32(u) == <<u[5], u[6], u[7], u[8]>>

\* the guint64 a guint32 id is widened to in the comparison of check_id
Wide64(id) == <<0, 0, 0, 0, id[1], id[2], id[3], id[4]>>

\* sizes of 2^30 bytes or more, the unknown-length value included
SizeCap == 2 ^ 30

\* the byte count a guint64 size stands for
SizeOf(u) ==
  IF u[1] = 0 /\ u[2] = 0 /\ u[3] = 0 /\ u[4] = 0 /\ u[5] < 64
  THEN u[5] * 16777216 + u[6] * 65536 + u[7] * 256 + u[8]
  ELSE SizeCap

(***************************************************************************)
(* The mapped window: gst_adapter_map (adapter, avail) gives avail bytes.  *)
(* A read at an index of avail or more is outside the mapped memory; what  *)
(* it yields is not defined by the program, and is the byte m.oob, which   *)
(* is either of OobBytes.                                                  *)
(***************************************************************************)
MemAt(m, i) == IF i < m.avail THEN m.data[i + 1] ELSE m.oob

(***************************************************************************)
(* gst_matroska_parser_read_len: position of the first set bit, 1..9       *)
(***************************************************************************)
RECURSIVE read_len_loop(_, _)
read_len_loop(data, i) ==
  IF i < 8 /\ (data \div (2 ^ (7 - i))) % 2 = 0
  THEN read_len_loop(data, i + 1)
  ELSE i

gst_matroska_parser_read_len(data) == read_len_loop(data, 0) + 1

(***************************************************************************)
(* gst_matroska_parser_read_data: big-endian value of len bytes at pos;    *)
(* 0 when len is 0 or more than 8                                          *)
(***************************************************************************)
gst_matroska_parser_read_data(m, pos, len) ==
  IF len = 0 \/ len > 8
  THEN Zero64
  ELSE [k \in 1..8 |->
          IF k <= 8 - len THEN 0 ELSE MemAt(m, pos + (k - (8 - len)) - 1)]

(***************************************************************************)
(* gst_matroska_parser_read_data_len: as read_data, the length marker bit  *)
(* of the first byte removed                                               *)
(***************************************************************************)
gst_matroska_parser_read_data_len(m, pos, len) ==
  IF len = 0 \/ len > 8
  THEN Zero64
  ELSE [k \in 1..8 |->
          IF k < 9 - len THEN 0
          ELSE IF k = 9 - len THEN MemAt(m, pos) - 2 ^ (8 - len)
          ELSE MemAt(m, pos + (k - (9 - len)))]

\* the table unknown_length[8] of gst_matroska_read_one_ebml_info
unknown_length ==
  << <<0, 0, 0, 0, 0, 0, 0, 127>>,
     <<0, 0, 0, 0, 0, 0, 63, 255>>,
     <<0, 0, 0, 0, 0, 31, 255, 255>>,
     <<0, 0, 0, 0, 15, 255, 255, 255>>,
     <<0, 0, 0, 7, 255, 255, 255, 255>>,
     <<0, 0, 3, 255, 255, 255, 255, 255>>,
     <<0, 1, 255, 255, 255, 255, 255, 255>>,
     <<0, 255, 255, 255, 255, 255, 255, 255>> >>

(***************************************************************************)
(* gst_matroska_read_one_ebml_info (buf + pos, size, &info).               *)
(* bytes is the returned count (0: nothing decoded).  Besides the fields   *)
(* of GstMatroskaEbmlInfo the result tells what the call did: log is the   *)
(* GST_ERROR line it wrote, if any; unknown, that the size field held the  *)
(* unknown-length pattern; end, the index behind the last byte it read.    *)
(***************************************************************************)
NoInfo(log, end) ==
  [bytes |-> 0, id |-> <<0, 0, 0, 0>>, size |-> 0, data_offset |-> 0,
   data_buf |-> 0, unknown |-> FALSE, log |-> log, end |-> end]

\* "check unknown length" and "extract data field": the size field raw, of
\* szlen bytes, behind an id of idlen bytes
ebml_data_field(pos, idlen, szlen, id, raw, unk) ==
  [bytes |-> idlen + szlen + (IF unk THEN SizeCap ELSE SizeOf(raw)),
   id |-> id,
   size |-> IF unk THEN SizeCap ELSE SizeOf(raw),
   data_offset |-> idlen + szlen,
   data_buf |-> pos + idlen + szlen,
   unknown |-> unk, log |-> "none", end |-> pos + idlen + szlen]

\* "extract size field": szlen is the length the first size byte announces
ebml_size_field(m, pos, size, idlen, id, szlen) ==
  IF size - idlen <= szlen \/ szlen > 8
  THEN NoInfo(IF szlen > 8 THEN "data size field error" ELSE "none",
              pos + idlen + 1)
  ELSE ebml_data_field(
         pos, idlen, szlen, id,
         gst_matroska_parser_read_data_len(m, pos + idlen, szlen),
         unknown_length[szlen]
           = gst_matroska_parser_read_data_len(m, pos + idlen, szlen))

\* "extract id field": idlen is the length the first id byte announces
ebml_id_field(m, pos, size, idlen) ==
  IF size <= idlen \/ idlen > 8
  THEN NoInfo(IF idlen > 8 THEN "id field error" ELSE "none", pos + 1)
  ELSE ebml_size_field(
         m, pos, size, idlen,
         Low32(gst_matroska_parser_read_data(m, pos, idlen)),
         gst_matroska_parser_read_len(MemAt(m, pos + idlen)))

gst_matroska_read_one_ebml_info(m, pos, size) ==
  IF size = 0 THEN NoInfo("none", 0)
  ELSE ebml_id_field(m, pos, size,
                     gst_matroska_parser_read_len(MemAt(m, pos)))

\* check_id that never reports a mismatch (res is left at OK)
check_id_no_mismatch(m, id, len) ==
  IF m.avail < len THEN GST_MATROSKA_PARSER_INSUFFICIENT_DATA
  ELSE GST_MATROSKA_PARSER_OK

\* check_id that answers a short window with OK, as extract_data does
check_id_short_ok(m, id, len) ==
  IF m.avail < len THEN GST_MATROSKA_PARSER_OK
  ELSE IF gst_matroska_parser_read_data(m, 0, len) # Wide64(id)
  THEN GST_MATROSKA_PARSER_NOT_SUPPORTED
  ELSE GST_MATROSKA_PARSER_OK

(***************************************************************************)
(* gst_matroska_parser_check_id (parser, id, len, adapter)                 *)
(***************************************************************************)
gst_matroska_parser_check_id(m, id, len) ==
  IF m.avail < len THEN GST_MATROSKA_PARSER_INSUFFICIENT_DATA
  ELSE IF gst_matroska_parser_read_data(m, 0, len) # Wide64(id)
  THEN GST_MATROSKA_PARSER_NOT_SUPPORTED
  ELSE GST_MATROSKA_PARSER_OK

(***************************************************************************)
(* The parser structure GstMatroskaParser.  array is the GArray of cue     *)
(* points, has_array tells that the pointer is not NULL.                   *)
(***************************************************************************)
ZeroParser ==
  [len |-> 0, segment_offset |-> 0, segment_head_offset |-> 0,
   time_scale |-> Zero64, duration |-> Zero64, offset |-> 0, consume |-> 0,
   cue_point_num |-> 0, has_array |-> FALSE, array |-> <<>>,
   status |-> GST_MATROSKA_PARSER_STATUS_INIT]

\* memset (&point_data, 0, sizeof (GstMatroskaPointData))
ZeroPoint == [cue_time |-> Zero64, track |-> Zero64, cluster_pos |-> Zero64]

(***************************************************************************)
(* One iteration of the switch (embl_info.id) of                           *)
(* gst_matroska_parser_extract_data.  Gives the parser after the case, the *)
(* consume the case leaves, and done when the case returned DONE.          *)
(***************************************************************************)
HasEntry(parser) == parser.has_array /\ parser.cue_point_num # 0

\* a cue leaf that writes its field and zeroes the rest of the cue point
SetEntry_wipe(parser, field, value) ==
  IF HasEntry(parser)
  THEN [parser EXCEPT !.array[parser.cue_point_num] =
                         [ZeroPoint EXCEPT ![field] = value]]
  ELSE parser

\* the cue leaves written to the first cue point instead of the last
SetEntry_first(parser, field, value) ==
  IF HasEntry(parser)
  THEN [parser EXCEPT !.array[1][field] = value]
  ELSE parser

SetEntry(parser, field, value) ==
  IF HasEntry(parser)
  THEN [parser EXCEPT !.array[parser.cue_point_num][field] = value]
  ELSE parser

Leaf(m, info) ==
  gst_matroska_parser_read_data(m, info.data_buf, info.size)

dispatch(parser, m, info, consume) ==
  CASE info.id = GST_EBML_ID_HEADER ->
         [parser |-> [parser EXCEPT !.consume = 0],
          consume |-> consume, done |-> FALSE]
    [] info.id = GST_MATROSKA_ID_SEGMENT ->
         [parser |-> [parser EXCEPT !.segment_offset = parser.consume],
          consume |-> info.data_offset, done |-> FALSE]
    [] info.id = GST_MATROSKA_ID_SEEKHEAD ->
         [parser |-> [parser EXCEPT !.segment_head_offset = parser.consume],
          consume |-> consume, done |-> FALSE]
    [] info.id = GST_MATROSKA_ID_SEGMENTINFO ->
         [parser |-> parser, consume |-> info.data_offset, done |-> FALSE]
    [] info.id = GST_MATROSKA_ID_TIMECODESCALE ->
         [parser |-> [parser EXCEPT !.time_scale = Leaf(m, info)],
          consume |-> consume, done |-> FALSE]
    [] info.id = GST_MATROSKA_ID_DURATION ->
         [parser |-> [parser EXCEPT !.duration = Leaf(m, info)],
          consume |-> consume, done |-> FALSE]
    [] info.id = GST_MATROSKA_ID_CUES ->
         [parser |-> [parser EXCEPT
                        !.len = parser.consume + info.data_offset + info.size],
          consume |-> info.data_offset, done |-> FALSE]
    [] info.id = GST_MATROSKA_ID_POINTENTRY ->
         [parser |-> [parser EXCEPT
                        !.has_array = TRUE,
                        !.array = Append(@, ZeroPoint),
                        !.cue_point_num = @ + 1],
          consume |-> info.data_offset, done |-> FALSE]
    [] info.id = GST_MATROSKA_ID_CUETIME ->
         [parser |-> SetEntry(parser, "cue_time", Leaf(m, info)),
          consume |-> consume, done |-> FALSE]
    [] info.id = GST_MATROSKA_ID_CUETRACKPOSITION ->
         [parser |-> parser, consume |-> info.data_offset, done |-> FALSE]
    [] info.id = GST_MATROSKA_ID_CUECLUSTERPOSITION ->
         [parser |-> SetEntry(parser, "cluster_pos", Leaf(m, info)),
          consume |-> consume, done |-> FALSE]
    [] info.id = GST_MATROSKA_ID_CUETRACK ->
         [parser |-> SetEntry(parser, "track", Leaf(m, info)),
          consume |-> consume, done |-> FALSE]
    [] info.id = GST_MATROSKA_ID_CLUSTER ->
         [parser |-> parser, consume |-> consume, done |-> TRUE]
    [] OTHER ->
         [parser |-> parser, consume |-> consume, done |-> FALSE]

\* consume after "Adjust some element type to parse sub element information"
AdjustConsume(info) ==
  IF info.bytes # 0
     /\ info.id \in {GST_MATROSKA_ID_SEGMENT, GST_MATROSKA_ID_CUES,
                     GST_MATROSKA_ID_CLUSTER}
     /\ info.bytes > info.size
  THEN info.bytes - info.size
  ELSE info.bytes

(***************************************************************************)
(* The while (TRUE) loop of gst_matroska_parser_extract_data, from the     *)
(* cursor offset with len bytes taken to remain.  The result carries the   *)
(* parser, the returned code, and what the last iteration saw: stop (why   *)
(* the loop ended), info (the element it decoded last) and log.  steps     *)
(* lists the iterations in order: for each the parser, the cursor and the  *)
(* remaining count it began with and the element it read.                  *)
(***************************************************************************)
RECURSIVE extract_loop(_, _, _, _)

\* the region taken as consumed only when the count has passed its end
loop_cues_end_late(parser, m, offset, len, info) ==
  IF parser.len # 0 /\ parser.consume > parser.len
  THEN [parser |-> [parser EXCEPT !.offset = offset],
        res |-> GST_MATROSKA_PARSER_DONE, stop |-> "cues", info |-> info,
        steps |-> <<>>]
  ELSE extract_loop(parser, m, offset, len)

\* "Get all cues information": parser is the parser after the iteration,
\* offset and len the cursor and the remaining count after it
loop_cues_end(parser, m, offset, len, info) ==
  IF parser.len # 0 /\ parser.consume >= parser.len
  THEN [parser |-> [parser EXCEPT !.offset = offset],
        res |-> GST_MATROSKA_PARSER_DONE, stop |-> "cues", info |-> info,
        steps |-> <<>>]
  ELSE extract_loop(parser, m, offset, len)

\* the remaining count lowered by one, whatever the case consumed
loop_advance_slow(m, offset, len, info, d) ==
  IF d.done
  THEN [parser |-> d.parser, res |-> GST_MATROSKA_PARSER_DONE,
        stop |-> "cluster", info |-> info, steps |-> <<>>]
  ELSE loop_cues_end([d.parser EXCEPT !.consume = @ + d.consume], m,
                     offset + d.consume, len - 1, info)

\* parser->consume set to the consume of the case instead of raised by it
loop_advance_set(m, offset, len, info, d) ==
  IF d.done
  THEN [parser |-> d.parser, res |-> GST_MATROSKA_PARSER_DONE,
        stop |-> "cluster", info |-> info, steps |-> <<>>]
  ELSE loop_cues_end([d.parser EXCEPT !.consume = d.consume], m,
                     offset + d.consume, len - d.consume, info)

\* the end of the switch: return DONE on a Cluster, else advance len, offset
\* and parser->consume by the consume d of the case
loop_advance(m, offset, len, info, d) ==
  IF d.done
  THEN [parser |-> d.parser, res |-> GST_MATROSKA_PARSER_DONE,
        stop |-> "cluster", info |-> info, steps |-> <<>>]
  ELSE loop_cues_end([d.parser EXCEPT !.consume = @ + d.consume], m,
                     offset + d.consume, len - d.consume, info)

\* "Check data integrity", then the switch
loop_check(parser, m, offset, len, info, consume) ==
  IF consume = 0 \/ len < consume
  THEN [parser |-> IF offset # 0 THEN [parser EXCEPT !.offset = offset]
                   ELSE parser,
        res |-> GST_MATROSKA_PARSER_OK,
        stop |-> "insufficient", info |-> info, steps |-> <<>>]
  ELSE loop_advance(m, offset, len, info, dispatch(parser, m, info, consume))

\* the iteration put in front of the steps of the result r
WithStep(parser, offset, len, info, r) ==
  [r EXCEPT !.steps = <<[parser |-> parser, offset |-> offset,
                         len |-> len, info |-> info]>> \o @]

\* "Read one ebml" gave info
loop_read(parser, m, offset, len, info) ==
  WithStep(parser, offset, len, info,
           loop_check(parser, m, offset, len, info, AdjustConsume(info)))

extract_loop(parser, m, offset, len) ==
  loop_read(parser, m, offset, len,
            gst_matroska_read_one_ebml_info(m, offset, len))

\* gst_matroska_parser_extract_data (parser, adapter)
gst_matroska_parser_extract_data(parser, m) ==
  extract_loop(parser, m, parser.offset, m.avail)

(***************************************************************************)
(* gst_matroska_parser_entry (parser, adapter), both arguments valid: the  *)
(* switch on parser->status with its fall-through cases.                   *)
(***************************************************************************)
NoTrace == [stop |-> "none", info |-> NoInfo("none", 0), steps |-> <<>>]

\* case STATUS_DATA after the extraction returned r
data_result(r) ==
  IF r.res # GST_MATROSKA_PARSER_DONE
  THEN r
  ELSE [r EXCEPT !.parser.status = GST_MATROSKA_PARSER_STATUS_FINISHED]

\* the status left at ExtractMetadata when the extraction is done
EntryData_no_finish(parser, m) ==
  gst_matroska_parser_extract_data(parser, m)

EntryData(parser, m) ==
  data_result(gst_matroska_parser_extract_data(parser, m))

\* a failed header check puts the status back to Init
header_result_rewind(parser, m, r) ==
  IF r # GST_MATROSKA_PARSER_OK
  THEN [parser |-> [parser EXCEPT !.status = GST_MATROSKA_PARSER_STATUS_INIT],
        res |-> r] @@ NoTrace
  ELSE EntryData(
         [parser EXCEPT !.status = GST_MATROSKA_PARSER_STATUS_DATA], m)

\* case STATUS_HEADER after the check returned r
header_result(parser, m, r) ==
  IF r # GST_MATROSKA_PARSER_OK
  THEN [parser |-> parser, res |-> r] @@ NoTrace
  ELSE EntryData(
         [parser EXCEPT !.status = GST_MATROSKA_PARSER_STATUS_DATA], m)

EntryHeader(parser, m) ==
  header_result(parser, m,
                gst_matroska_parser_check_id(m, GST_EBML_ID_HEADER, 4))

\* the switch without its Finished case: a finished parser extracts again
entry_finished_extracts(parser, m) ==
  CASE parser.status = GST_MATROSKA_PARSER_STATUS_INIT ->
         EntryHeader(
           [ZeroParser EXCEPT !.status = GST_MATROSKA_PARSER_STATUS_HEADER], m)
    [] parser.status = GST_MATROSKA_PARSER_STATUS_HEADER ->
         EntryHeader(parser, m)
    [] OTHER ->
         EntryData(parser, m)

gst_matroska_parser_entry(parser, m) ==
  CASE parser.status = GST_MATROSKA_PARSER_STATUS_INIT ->
         EntryHeader(
           [ZeroParser EXCEPT !.status = GST_MATROSKA_PARSER_STATUS_HEADER], m)
    [] parser.status = GST_MATROSKA_PARSER_STATUS_HEADER ->
         EntryHeader(parser, m)
    [] parser.status = GST_MATROSKA_PARSER_STATUS_DATA ->
         EntryData(parser, m)
    [] OTHER ->
         [parser |-> parser, res |-> GST_MATROSKA_PARSER_OK] @@ NoTrace

(***************************************************************************)
(* Input streams.  An element is its id bytes, its size field and its      *)
(* payload; sizes are written with the shortest field that holds them.     *)
(***************************************************************************)
SizeField(n) == IF n < 127 THEN <<128 + n>> ELSE <<64 + (n \div 256), n % 256>>

\* the id as it is written in the stream: the guint32 without leading zeros
RECURSIVE IdBytes(_)
IdBytes(id) == IF Len(id) > 1 /\ Head(id) = 0 THEN IdBytes(Tail(id)) ELSE id

Elem(id, payload) == IdBytes(id) \o SizeField(Len(payload)) \o payload

\* an element header announcing an unknown length (one-byte size field 0xFF)
UnknownHdr(id) == IdBytes(id) \o <<255>>

RECURSIVE Concat(_)
Concat(ss) == IF ss = <<>> THEN <<>> ELSE Head(ss) \o Concat(Tail(ss))

\* the value of a big-endian payload of at most 8 bytes
Pad64(bytes) ==
  [k \in 1..8 |-> IF k <= 8 - Len(bytes) THEN 0 ELSE bytes[k - (8 - Len(bytes))]]

\* the cue point a CuePoint element with these payloads describes
CueOf(c) ==
  [cue_time |-> Pad64(c.t), track |-> Pad64(c.tr), cluster_pos |-> Pad64(c.cp)]

CuePointElem(c) ==
  Elem(GST_MATROSKA_ID_POINTENTRY,
       Elem(GST_MATROSKA_ID_CUETIME, c.t)
       \o Elem(GST_MATROSKA_ID_CUETRACKPOSITION,
               Elem(GST_MATROSKA_ID_CUETRACK, c.tr)
               \o Elem(GST_MATROSKA_ID_CUECLUSTERPOSITION, c.cp)))

CuePoints(cues) == Concat([i \in 1..Len(cues) |-> CuePointElem(cues[i])])

EbmlHeader == Elem(GST_EBML_ID_HEADER, <<1>>)

\* TimecodeScale 1,000,000 = 0x0F4240
TimeScaleMillion == <<15, 66, 64>>

\* the cues (0, 1, 0) and (5,000,000,000, 1, 4096); 5,000,000,000 = 0x012A05F200
CueA == [t |-> <<0>>, tr |-> <<1>>, cp |-> <<0>>]
CueB == [t |-> <<1, 42, 5, 242, 0>>, tr |-> <<1>>, cp |-> <<16, 0>>]
CueVals == {CueA, CueB}

\* bound: the most CuePoint elements of a generated Cues element
MaxCues == 2

\* the cue lists of the documents: CueA and CueB in turn, starting with either
CueSeqs ==
  {[i \in 1..n |-> IF (i + k) % 2 = 0 THEN CueA ELSE CueB]
     : n \in 0..MaxCues, k \in {0, 1}}

(***************************************************************************)
(* A well-formed document: EBML header, then a Segment of known size       *)
(* holding SegmentInfo {TimecodeScale}, Cues {CuePoint...} and the id of a *)
(* Cluster.                                                                *)
(***************************************************************************)
SegmentBody(ts, cues) ==
  Elem(GST_MATROSKA_ID_SEGMENTINFO, Elem(GST_MATROSKA_ID_TIMECODESCALE, ts))
  \o Elem(GST_MATROSKA_ID_CUES, CuePoints(cues))
  \o IdBytes(GST_MATROSKA_ID_CLUSTER)

WellFormed(ts, cues) ==
  EbmlHeader \o Elem(GST_MATROSKA_ID_SEGMENT, SegmentBody(ts, cues))

WellFormedDocs ==
  {[kind |-> "wellformed", ts |-> TimeScaleMillion, cues |-> cs]
     : cs \in CueSeqs}

(***************************************************************************)
(* Other documents: a wrong magic, documents without Cues or with a        *)
(* Cluster inside the Cues region, a SeekHead, elements of unknown length  *)
(* that are to be skipped, length fields with no bit set, leaves whose     *)
(* size is outside 1..8, a cue leaf ahead of the first CuePoint, and two   *)
(* EBML documents one behind the other.                                    *)
(***************************************************************************)
ID_VOID == <<0, 0, 0, 236>>

Prefix == EbmlHeader \o UnknownHdr(GST_MATROSKA_ID_SEGMENT)

NineBytes == <<1, 2, 3, 4, 5, 6, 7, 8, 9>>

SegmentInfoElem ==
  Elem(GST_MATROSKA_ID_SEGMENTINFO,
       Elem(GST_MATROSKA_ID_TIMECODESCALE, TimeScaleMillion)
       \o Elem(GST_MATROSKA_ID_DURATION, <<3, 232>>))

OtherDocs ==
  {[kind |-> "bad_magic"], [kind |-> "no_cues"], [kind |-> "cluster_in_cues"],
   [kind |-> "seekhead"], [kind |-> "zero_id"], [kind |-> "zero_size"],
   [kind |-> "bad_leaf"], [kind |-> "leaf_first"],
   [kind |-> "second_header"]}
  \cup {[kind |-> "unknown_skip", id |-> i]
          : i \in {GST_MATROSKA_ID_SEEKHEAD, ID_VOID, GST_EBML_ID_HEADER}}

Docs == WellFormedDocs \cup OtherDocs

Encode(doc) ==
  CASE doc.kind = "wellformed" -> WellFormed(doc.ts, doc.cues)
    [] doc.kind = "bad_magic" -> <<26, 69, 223, 164, 129, 1, 24, 83>>
    [] doc.kind = "no_cues" ->
         Prefix \o SegmentInfoElem
         \o Elem(GST_MATROSKA_ID_CLUSTER, <<160, 0>>)
    [] doc.kind = "cluster_in_cues" ->
         Prefix
         \o Elem(GST_MATROSKA_ID_CUES,
                 CuePointElem(CueB) \o Elem(GST_MATROSKA_ID_CLUSTER, <<0>>)
                 \o CuePointElem(CueA))
    [] doc.kind = "seekhead" ->
         Prefix \o Elem(GST_MATROSKA_ID_SEEKHEAD, <<1, 2, 3>>)
         \o SegmentInfoElem
         \o Elem(GST_MATROSKA_ID_CUES, CuePointElem(CueB))
         \o Elem(GST_MATROSKA_ID_DURATION, <<7>>)
         \o IdBytes(GST_MATROSKA_ID_CLUSTER)
    [] doc.kind = "unknown_skip" ->
         (IF doc.id = GST_EBML_ID_HEADER
          THEN UnknownHdr(doc.id) \o <<1>>
          ELSE Prefix \o UnknownHdr(doc.id) \o <<1>>)
         \o Elem(GST_MATROSKA_ID_CUES, CuePointElem(CueA))
    [] doc.kind = "zero_id" ->
         Prefix \o <<0, 129, 0>> \o Elem(GST_MATROSKA_ID_CLUSTER, <<0>>)
    [] doc.kind = "zero_size" ->
         Prefix \o <<236, 0, 0>> \o Elem(GST_MATROSKA_ID_CLUSTER, <<0>>)
    [] doc.kind = "bad_leaf" ->
         Prefix
         \o Elem(GST_MATROSKA_ID_SEGMENTINFO,
                 Elem(GST_MATROSKA_ID_TIMECODESCALE, NineBytes)
                 \o Elem(GST_MATROSKA_ID_DURATION, <<>>))
         \o Elem(GST_MATROSKA_ID_CUES,
                 CuePointElem([t |-> <<>>, tr |-> <<1>>, cp |-> NineBytes]))
         \o IdBytes(GST_MATROSKA_ID_CLUSTER)
    [] doc.kind = "leaf_first" ->
         Prefix
         \o Elem(GST_MATROSKA_ID_CUES,
                 Elem(GST_MATROSKA_ID_CUETIME, <<5>>) \o CuePointElem(CueB))
         \o IdBytes(GST_MATROSKA_ID_CLUSTER)
    [] doc.kind = "second_header" ->
         EbmlHeader
         \o Elem(GST_MATROSKA_ID_SEGMENT, Elem(ID_VOID, <<1>>))
         \o EbmlHeader
         \o Elem(GST_MATROSKA_ID_CLUSTER, <<0>>)

\* the bytes a read outside the mapped window may yield
OobBytes == {0, 129}

(***************************************************************************)
(* State.                                                                  *)
(*   doc, stream  the input document and its bytes                         *)
(*   oob          what the memory behind the mapped window holds           *)
(*   avail        gst_adapter_available (adapter)                          *)
(*   parser       the GstMatroskaParser                                    *)
(*   res          the code the last gst_matroska_parser_entry returned     *)
(* and, recording the run for the properties:                              *)
(*   op           the last operation                                       *)
(*   prev_status  parser.status before the last operation                  *)
(*   trace        what the extraction loop of the last feed ended on       *)
(*   bytewise     the run so far is "append one byte, feed once" repeated  *)
(*                from an empty adapter                                    *)
(*   need_more    the last feed asked for more bytes                       *)
(*   pending      bytes were appended since the last feed                  *)
(***************************************************************************)
VARIABLES doc, stream, oob, avail, parser, res, op, prev_status, trace,
          bytewise, need_more, pending

vars == <<doc, stream, oob, avail, parser, res, op, prev_status, trace,
          bytewise, need_more, pending>>

Window == [data |-> stream, avail |-> avail, oob |-> oob]

TraceOf(r) ==
  [stop |-> r.stop, id |-> r.info.id, unknown |-> r.info.unknown,
   log |-> r.info.log, end |-> r.info.end]

\* The adapter may already hold any prefix of the stream when the parser,
\* zeroed by gst_matroska_parser_init, is first used.
Init ==
  /\ doc \in Docs
  /\ stream = Encode(doc)
  /\ oob \in OobBytes
  /\ avail \in 0..Len(stream)
  /\ parser = ZeroParser
  /\ res = GST_MATROSKA_PARSER_OK
  /\ op = "init"
  /\ prev_status = GST_MATROSKA_PARSER_STATUS_INIT
  /\ trace = TraceOf(NoTrace)
  /\ bytewise = (avail = 0)
  /\ need_more = FALSE
  /\ pending = FALSE

\* The result asks the caller for more bytes before the next call.
AsksMore(r) ==
  r \in {GST_MATROSKA_PARSER_OK, GST_MATROSKA_PARSER_INSUFFICIENT_DATA}

(***************************************************************************)
(* The caller pushes the next bytes of the stream into the adapter, once   *)
(* between two feeds: a single byte while the run is bytewise, or all the  *)
(* rest of the stream.                                                     *)
(***************************************************************************)
AppendBytes ==
  /\ avail < Len(stream)
  /\ ~pending
  /\ \E k \in {1, Len(stream) - avail} :
       /\ k = 1 => bytewise
       /\ avail' = avail + k
       /\ bytewise' = (bytewise /\ k = 1 /\ res # GST_MATROSKA_PARSER_DONE)
  /\ op' = "append"
  /\ prev_status' = parser.status
  /\ need_more' = FALSE
  /\ pending' = TRUE
  /\ UNCHANGED <<doc, stream, oob, parser, res, trace>>

\* the call left the parser r.parser and returned r.res
Returned(r) ==
  /\ parser' = r.parser
  /\ res' = r.res
  /\ trace' = TraceOf(r)
  /\ need_more' = (AsksMore(r.res)
                   /\ parser.status # GST_MATROSKA_PARSER_STATUS_FINISHED)

(***************************************************************************)
(* gst_matroska_parser_entry (parser, adapter) with both arguments valid.  *)
(* The caller does not call again on the same window after a result that   *)
(* asked for more bytes.  Runs whose cursor has left the stream altogether *)
(* are not continued.                                                      *)
(***************************************************************************)
Feed ==
  /\ ~need_more
  /\ parser.offset <= Len(stream)
  /\ Returned(gst_matroska_parser_entry(parser, Window))
  /\ op' = "feed"
  /\ prev_status' = parser.status
  /\ bytewise' = (bytewise /\ pending)
  /\ pending' = FALSE
  /\ UNCHANGED <<doc, stream, oob, avail>>

\* gst_matroska_parser_entry with parser or adapter NULL
FeedInvalid ==
  /\ res' = GST_MATROSKA_PARSER_NOT_SUPPORTED
  /\ op' = "feed_invalid"
  /\ prev_status' = parser.status
  /\ bytewise' = FALSE
  /\ UNCHANGED <<doc, stream, oob, avail, parser, trace, need_more, pending>>

\* gst_matroska_parser_init (parser)
ParserInit ==
  /\ parser' = ZeroParser
  /\ op' = "parser_init"
  /\ prev_status' = parser.status
  /\ bytewise' = FALSE
  /\ need_more' = FALSE
  /\ UNCHANGED <<doc, stream, oob, avail, res, trace, pending>>

\* a clear that frees nothing and leaves the cue list and its count behind
ParserClear_keeps_list ==
  /\ parser' = [ZeroParser EXCEPT !.has_array = parser.has_array,
                                  !.array = parser.array,
                                  !.cue_point_num = parser.cue_point_num]
  /\ op' = "parser_clear"
  /\ prev_status' = parser.status
  /\ bytewise' = FALSE
  /\ need_more' = FALSE
  /\ UNCHANGED <<doc, stream, oob, avail, res, trace, pending>>

\* gst_matroska_parser_clear (parser)
ParserClear ==
  /\ parser' = ZeroParser
  /\ op' = "parser_clear"
  /\ prev_status' = parser.status
  /\ bytewise' = FALSE
  /\ need_more' = FALSE
  /\ UNCHANGED <<doc, stream, oob, avail, res, trace, pending>>

Next == AppendBytes \/ Feed \/ FeedInvalid \/ ParserInit \/ ParserClear

Spec == Init /\ [][Next]_vars

TypeOK ==
  /\ avail \in 0..Len(stream)
  /\ parser.cue_point_num = Len(parser.array)
  /\ res \in 0..5

(***************************************************************************)
(* Properties                                                              *)
(***************************************************************************)
Fed == op = "feed"

\* the last operation was a feed of a zeroed parser (status Init)
FedFresh == Fed /\ prev_status = GST_MATROSKA_PARSER_STATUS_INIT

\* ... whose window held the whole stream
FedWhole == FedFresh /\ avail = Len(stream)

\* the parser a single feed of the whole stream leaves
WholeRun ==
  gst_matroska_parser_entry(
    ZeroParser, [data |-> stream, avail |-> Len(stream), oob |-> oob]).parser

\* a bytewise run has come to its end: Done, or the whole stream fed
BytewiseFinal ==
  /\ bytewise
  /\ Fed
  /\ res = GST_MATROSKA_PARSER_DONE \/ avail = Len(stream)

SameResult(p, q) ==
  /\ p.time_scale = q.time_scale
  /\ p.duration = q.duration
  /\ p.segment_offset = q.segment_offset
  /\ p.cue_point_num = q.cue_point_num
  /\ p.array = q.array

\* C1: a stream fed byte by byte ends with the same timeScale, duration,
\* segmentOffset and cue list as the same stream fed whole in one call.
C1_BytewiseEqualsWhole == BytewiseFinal => SameResult(parser, WholeRun)

\* C2: a feed made while the status is Finished returns Done.
C2_FinishedFeedReturnsDone ==
  (Fed /\ prev_status = GST_MATROSKA_PARSER_STATUS_FINISHED)
    => res = GST_MATROSKA_PARSER_DONE

\* C3: a feed made while the status is Finished leaves every field of the
\* parser as it was (status, offsets, counters, scalars and the cue list).
C3_FinishedFeedChangesNothing ==
  [][(parser.status = GST_MATROSKA_PARSER_STATUS_FINISHED /\ op' = "feed")
       => parser' = parser]_vars

\* a feed was made in Finished, on a parser holding cues
C3_Witness ==
  /\ Fed
  /\ prev_status = GST_MATROSKA_PARSER_STATUS_FINISHED
  /\ parser.status = GST_MATROSKA_PARSER_STATUS_FINISHED
  /\ parser.cue_point_num > 0

\* the last feed stopped on a length field, inside the window, whose first
\* byte has no bit set
BadLengthField ==
  /\ Fed
  /\ trace.log \in {"id field error", "data size field error"}
  /\ trace.end <= avail

\* C4: in ExtractMetadata a length field (of an id or of a size) whose first
\* byte has no bit set makes feed return Error, not the Ok of "too few bytes".
C4_BadLengthIsError == BadLengthField => res = GST_MATROSKA_PARSER_ERROR

\* the ids the dispatch descends into, reads as a leaf or ends on: every
\* other element is skipped with its full size
NotSkipped ==
  {GST_MATROSKA_ID_SEGMENT, GST_MATROSKA_ID_SEGMENTINFO,
   GST_MATROSKA_ID_TIMECODESCALE, GST_MATROSKA_ID_DURATION,
   GST_MATROSKA_ID_CUES, GST_MATROSKA_ID_POINTENTRY, GST_MATROSKA_ID_CUETIME,
   GST_MATROSKA_ID_CUETRACKPOSITION, GST_MATROSKA_ID_CUECLUSTERPOSITION,
   GST_MATROSKA_ID_CUETRACK, GST_MATROSKA_ID_CLUSTER}

\* the last feed stopped on an element of unknown length, its header inside
\* the window, that is to be skipped
UnknownSkip ==
  /\ Fed
  /\ trace.unknown
  /\ trace.end <= avail
  /\ trace.id \notin NotSkipped

\* C5: an element of unknown length that has to be skipped makes feed return
\* Error; feed does not answer Ok and wait for more bytes.
C5_UnknownSkipIsError == UnknownSkip => res = GST_MATROSKA_PARSER_ERROR

\* the window holds 4 bytes or more and does not begin with 1A 45 DF A3
WrongMagic ==
  avail >= 4 /\ SubSeq(stream, 1, 4) # <<26, 69, 223, 163>>

\* C6: a feed of a parser that has not passed the header check, on a window
\* of 4 bytes or more that does not begin with the EBML Header id, returns
\* NotSupported, leaves the cue list empty and does not reach
\* ExtractMetadata; so does every later feed on that window.
C6_WrongMagicNotSupported ==
  (Fed /\ WrongMagic)
    => /\ res = GST_MATROSKA_PARSER_NOT_SUPPORTED
       /\ parser.array = <<>>
       /\ parser.cue_point_num = 0
       /\ parser.status = GST_MATROSKA_PARSER_STATUS_HEADER

\* a second feed on the window of a wrong magic
C6_Witness ==
  /\ Fed
  /\ WrongMagic
  /\ prev_status = GST_MATROSKA_PARSER_STATUS_HEADER
  /\ res = GST_MATROSKA_PARSER_NOT_SUPPORTED

HeaderPending ==
  parser.status \in {GST_MATROSKA_PARSER_STATUS_INIT,
                     GST_MATROSKA_PARSER_STATUS_HEADER}

ShortFeedKeeps ==
  /\ parser'.offset = parser.offset
  /\ parser'.consume = parser.consume
  /\ parser'.array = parser.array
  /\ parser'.cue_point_num = parser.cue_point_num
  /\ parser'.status = GST_MATROSKA_PARSER_STATUS_HEADER

\* C7 (as claimed): a feed in Init or ExpectHeader with fewer than 4 bytes
\* available returns Ok, consumes nothing, leaves the cue table alone and
\* ends in ExpectHeader.
C7_ShortHeaderReturnsOk ==
  [][(HeaderPending /\ avail < 4 /\ op' = "feed")
       => (res' = GST_MATROSKA_PARSER_OK /\ ShortFeedKeeps)]_vars

\* C7 (amended): such a feed returns InsufficientData, a code of its own
\* that is not Ok; it consumes nothing, leaves the cue table alone and ends
\* in ExpectHeader.
C7_ShortHeaderInsufficientData ==
  [][(HeaderPending /\ avail < 4 /\ op' = "feed")
       => (/\ res' = GST_MATROSKA_PARSER_INSUFFICIENT_DATA
           /\ res' # GST_MATROSKA_PARSER_OK
           /\ ShortFeedKeeps)]_vars

\* a feed was made with 1..3 bytes in the window
C7_Witness ==
  /\ Fed
  /\ avail \in 1..3
  /\ prev_status \in {GST_MATROSKA_PARSER_STATUS_INIT,
                      GST_MATROSKA_PARSER_STATUS_HEADER}
  /\ parser.status = GST_MATROSKA_PARSER_STATUS_HEADER

\* C8: a feed with a missing parser or adapter returns ParamError (and not
\* NotSupported).
C8_InvalidArgsParamError ==
  op = "feed_invalid" => res = GST_MATROSKA_PARSER_ERROR_PARAM

\* the cue list a well-formed document describes
DocCues(d) == [i \in 1..Len(d.cues) |-> CueOf(d.cues[i])]

\* C9: a well-formed document (EBML header, Segment with SegmentInfo
\* {TimecodeScale} and Cues {n CuePoints}, Cluster id) fed whole to a fresh
\* parser gives Done, status Finished, the document's time scale and exactly
\* its n cues in document order.
C9_WellFormedWhole ==
  (FedWhole /\ doc.kind = "wellformed")
    => /\ res = GST_MATROSKA_PARSER_DONE
       /\ parser.status = GST_MATROSKA_PARSER_STATUS_FINISHED
       /\ parser.time_scale = Pad64(doc.ts)
       /\ parser.cue_point_num = Len(doc.cues)
       /\ parser.array = DocCues(doc)

\* the instance: time scale 1,000,000 = 0x0F4240, cues (0, 1, 0) and
\* (5,000,000,000 = 0x012A05F200, 1, 4096 = 0x1000), in that order
C9_Witness ==
  /\ FedWhole
  /\ doc.kind = "wellformed"
  /\ doc.cues = <<CueA, CueB>>
  /\ res = GST_MATROSKA_PARSER_DONE
  /\ parser.time_scale = <<0, 0, 0, 0, 0, 15, 66, 64>>
  /\ parser.array =
       << [cue_time |-> Zero64, track |-> <<0, 0, 0, 0, 0, 0, 0, 1>>,
           cluster_pos |-> Zero64],
          [cue_time |-> <<0, 0, 0, 1, 42, 5, 242, 0>>,
           track |-> <<0, 0, 0, 0, 0, 0, 0, 1>>,
           cluster_pos |-> <<0, 0, 0, 0, 0, 0, 16, 0>>] >>

\* C10: a feed that ends on a Cluster header returns Done and leaves the
\* status Finished; the cue list then is what was appended ahead of that
\* Cluster and no later feed adds to it.  Without a Cues element ahead of
\* the Cluster the list is empty and the result still Done; with the
\* Cluster inside the Cues region only the CuePoint ahead of it is listed.
C10_ClusterEnds ==
  /\ []((Fed /\ trace.stop = "cluster")
          => /\ res = GST_MATROSKA_PARSER_DONE
             /\ parser.status = GST_MATROSKA_PARSER_STATUS_FINISHED)
  /\ []((FedWhole /\ doc.kind = "no_cues")
          => /\ res = GST_MATROSKA_PARSER_DONE
             /\ trace.stop = "cluster"
             /\ parser.len = 0
             /\ parser.array = <<>>
             /\ parser.cue_point_num = 0)
  /\ []((FedWhole /\ doc.kind = "cluster_in_cues")
          => /\ res = GST_MATROSKA_PARSER_DONE
             /\ trace.stop = "cluster"
             /\ parser.consume < parser.len
             /\ parser.array = <<CueOf(CueB)>>)
  /\ [][(parser.status = GST_MATROSKA_PARSER_STATUS_FINISHED /\ op' = "feed")
          => parser'.array = parser.array]_vars

\* a feed ended on the Cluster inside the Cues region, one cue listed
C10_Witness ==
  /\ Fed
  /\ doc.kind = "cluster_in_cues"
  /\ trace.stop = "cluster"
  /\ parser.status = GST_MATROSKA_PARSER_STATUS_FINISHED
  /\ parser.consume < parser.len
  /\ Len(parser.array) = 1

\* the stream holds a Segment header right behind the 6 bytes of EbmlHeader
HasSegment ==
  /\ Len(stream) >= Len(EbmlHeader) + 5
  /\ SubSeq(stream, 1, Len(EbmlHeader)) = EbmlHeader
  /\ SubSeq(stream, Len(EbmlHeader) + 1, Len(EbmlHeader) + 4)
       = GST_MATROSKA_ID_SEGMENT

\* the offset in the stream of the first byte behind the id and the size
\* field of that Segment
SegmentPayloadStart ==
  Len(EbmlHeader) + 4
  + gst_matroska_parser_read_len(stream[Len(EbmlHeader) + 5])

\* C11: once a Segment header was dispatched, segment_offset is the offset
\* in the stream of the first byte of the Segment's payload (the byte behind
\* its id and size fields).
C11_SegmentOffsetIsPayloadStart ==
  (FedWhole /\ HasSegment) => parser.segment_offset = SegmentPayloadStart

\* the iterations of the extraction loop the feed of this state makes
FeedSteps == gst_matroska_parser_entry(parser, Window).steps

\* the iteration passed "Check data integrity" and went into the switch
Dispatched(st) ==
  AdjustConsume(st.info) # 0 /\ st.len >= AdjustConsume(st.info)

\* one of the iterations ss dispatches an element with this id
Dispatches(ss, id) ==
  \E i \in 1..Len(ss) : Dispatched(ss[i]) /\ ss[i].info.id = id

\* C12 (as claimed): parser->consume, the count of all bytes consumed so
\* far, never decreases: a feed leaves it at or above what it was before.
C12_ConsumeNeverDecreases ==
  [][op' = "feed" => parser'.consume >= parser.consume]_vars

\* a dispatched EBML Header element restarts the count: the iteration
\* behind it begins with the length of that element, whatever the count was
HeaderRestartsCount(ss) ==
  \A i \in 1..(Len(ss) - 1) :
    (Dispatched(ss[i]) /\ ss[i].info.id = GST_EBML_ID_HEADER)
      => ss[i + 1].parser.consume = ss[i].info.bytes

\* C12 (amended): a feed that dispatches no EBML Header element leaves
\* parser->consume at or above what it was before; a dispatched EBML Header
\* element sets the count to the length of that element, whatever it was
\* before, so that a header behind consumed bytes lowers it.
C12_ConsumeRestartsAtHeader ==
  [][op' = "feed"
       => \A ss \in {FeedSteps} :
            /\ ~Dispatches(ss, GST_EBML_ID_HEADER)
                 => parser'.consume >= parser.consume
            /\ HeaderRestartsCount(ss)]_vars

\* a feed resumed at the second EBML header, 14 bytes into the stream, and
\* ended on the Cluster behind it with the count at 6
C12_Witness ==
  /\ Fed
  /\ doc.kind = "second_header"
  /\ prev_status = GST_MATROSKA_PARSER_STATUS_DATA
  /\ res = GST_MATROSKA_PARSER_DONE
  /\ parser.offset = 14
  /\ parser.consume = 6

\* C13: the saved cursor parser->offset never lies behind the end of the
\* window: it is at most the number of bytes available in the adapter.
C13_OffsetWithinWindow == parser.offset <= avail

\* the order of the status values: Init, ExpectHeader, ExtractMetadata,
\* Finished are 0, 1, 2, 3
StatusForward == parser'.status >= parser.status

\* C14: a feed never leaves the status earlier than it was, whatever it
\* returns; a feed in Init leaves Init, and no feed comes back to Init, so
\* that the step from Init to ExpectHeader is taken once, by the first feed.
C14_StatusOnlyForward ==
  [][op' = "feed"
       => /\ StatusForward
          /\ parser'.status # GST_MATROSKA_PARSER_STATUS_INIT
          /\ parser.status = GST_MATROSKA_PARSER_STATUS_INIT
               => parser'.status >= GST_MATROSKA_PARSER_STATUS_HEADER]_vars

\* a feed in ExtractMetadata asked for more bytes and left the status in
\* ExtractMetadata, the cursor inside the stream
C14_Witness ==
  /\ Fed
  /\ prev_status = GST_MATROSKA_PARSER_STATUS_DATA
  /\ parser.status = GST_MATROSKA_PARSER_STATUS_DATA
  /\ res = GST_MATROSKA_PARSER_OK
  /\ parser.offset > 0

\* what a feed of a parser fresh from gst_matroska_parser_init gives on the
\* window of this state
FreshFeed == gst_matroska_parser_entry(ZeroParser, Window)

\* C15: gst_matroska_parser_clear, in whatever state, leaves the parser as
\* gst_matroska_parser_init does: status Init, every offset, counter and
\* scalar zero, no cue list.  A second clear changes nothing, and the feed
\* behind a clear gives what the feed of a fresh parser gives.
C15_ClearResets ==
  /\ [][op' = "parser_clear" => parser' = ZeroParser]_vars
  /\ [][(op = "parser_clear" /\ op' = "parser_clear")
          => parser' = parser]_vars
  /\ [][(op = "parser_clear" /\ op' = "feed")
          => /\ parser' = FreshFeed.parser
             /\ res' = FreshFeed.res]_vars

\* a parser that had finished on a document of two cues was cleared
C15_Witness ==
  /\ op = "parser_clear"
  /\ prev_status = GST_MATROSKA_PARSER_STATUS_FINISHED
  /\ doc.kind = "wellformed"
  /\ Len(doc.cues) = 2
  /\ res = GST_MATROSKA_PARSER_DONE
  /\ parser = ZeroParser

\* the ids whose payload the switch reads with gst_matroska_parser_read_data
SegmentLeaves == {GST_MATROSKA_ID_TIMECODESCALE, GST_MATROSKA_ID_DURATION}

CueLeaves ==
  {GST_MATROSKA_ID_CUETIME, GST_MATROSKA_ID_CUETRACK,
   GST_MATROSKA_ID_CUECLUSTERPOSITION}

\* the iteration calls gst_matroska_parser_read_data on the payload
ReadsLeaf(st) ==
  /\ Dispatched(st)
  /\ \/ st.info.id \in SegmentLeaves
     \/ st.info.id \in CueLeaves /\ HasEntry(st.parser)

\* the index behind the last byte the iteration reads: the id and size
\* bytes, and the payload of a leaf of 1..8 bytes
StepReadEnd(st) ==
  IF ReadsLeaf(st) /\ st.info.size \in 1..8
  THEN st.info.data_buf + st.info.size
  ELSE st.info.end

\* C16: every byte a feed reads (id bytes, size bytes, leaf payload bytes)
\* lies inside the window, on the first call and on resumed calls alike.
C16_ReadsInsideWindow ==
  [][op' = "feed"
       => \A ss \in {FeedSteps} :
            \A i \in 1..Len(ss) : StepReadEnd(ss[i]) <= avail]_vars

\* the iteration dispatches a Cues header of known size
CuesStep(st) ==
  Dispatched(st) /\ st.info.id = GST_MATROSKA_ID_CUES /\ ~st.info.unknown

\* parser->consume + consume + embl_info.size at a Cues header
CuesEndOf(st) == st.parser.consume + st.info.data_offset + st.info.size

\* the parser the i-th of the iterations ss of the feed leaves
AfterStep(ss, i) == IF i < Len(ss) THEN ss[i + 1].parser ELSE parser'

\* the region is set and the count has reached its end
CuesConsumed(p) == p.len # 0 /\ p.consume >= p.len

\* the cursor behind the element of the iteration st
CursorBehind(st) ==
  st.offset + dispatch(st.parser, Window, st.info, AdjustConsume(st.info)).consume

\* every Cues header of known size among the iterations ss leaves parser->len
\* at the end of its region
CuesEndRecorded(ss) ==
  \A i \in 1..Len(ss) :
    CuesStep(ss[i]) => AfterStep(ss, i).len = CuesEndOf(ss[i])

\* every element the iterations ss dispatch begins at a count below end
DispatchedBelow(ss, end) ==
  \A i \in 1..Len(ss) : Dispatched(ss[i]) => ss[i].parser.consume < end

\* C17: a dispatched Cues header of known size sets parser->len to the
\* count at the header plus the header's length plus the size.  The feed in
\* which parser->consume first reaches or passes parser->len returns DONE,
\* ends in Finished, saves the cursor behind the last element it consumed
\* and dispatches no element that begins at or behind parser->len.
C17_CuesRegionEnds ==
  [][op' = "feed"
       => \A ss \in {FeedSteps} :
            /\ CuesEndRecorded(ss)
            /\ (CuesConsumed(parser') /\ ~CuesConsumed(parser))
                 => /\ res' = GST_MATROSKA_PARSER_DONE
                    /\ parser'.status = GST_MATROSKA_PARSER_STATUS_FINISHED
                    /\ parser'.offset = CursorBehind(ss[Len(ss)])
                    /\ DispatchedBelow(ss, parser'.len)]_vars

\* a feed ended at the end of the Cues region of the document that has a
\* Duration and a Cluster behind that region: the Duration read is the one
\* ahead of the Cues
C17_Witness ==
  /\ Fed
  /\ doc.kind = "seekhead"
  /\ trace.stop = "cues"
  /\ res = GST_MATROSKA_PARSER_DONE
  /\ parser.status = GST_MATROSKA_PARSER_STATUS_FINISHED
  /\ parser.len > 0
  /\ parser.consume = parser.len
  /\ parser.duration = Pad64(<<3, 232>>)
  /\ parser.array = <<CueOf(CueB)>>

\* the field of GstMatroskaPointData a cue leaf is stored in
CueField(id) ==
  CASE id = GST_MATROSKA_ID_CUETIME -> "cue_time"
    [] id = GST_MATROSKA_ID_CUETRACK -> "track"
    [] id = GST_MATROSKA_ID_CUECLUSTERPOSITION -> "cluster_pos"

\* every cue point but the last is in q what it is in p
EarlierKept(p, q) ==
  \A k \in 1..(Len(p.array) - 1) :
    k <= Len(q.array) /\ q.array[k] = p.array[k]

\* from p to q the cue table changed in nothing but that field of the last
\* cue point
OnlyFieldChanged(p, q, field) ==
  /\ q.has_array = p.has_array
  /\ q.cue_point_num = p.cue_point_num
  /\ Len(q.array) = Len(p.array)
  /\ EarlierKept(p, q)
  /\ \A f \in {"cue_time", "track", "cluster_pos"} \ {field} :
       Len(p.array) > 0
         => q.array[Len(p.array)][f] = p.array[Len(p.array)][f]

\* what C18 says of the iteration st that leaves the parser q
LeafStepKeeps(st, q) ==
  Dispatched(st)
    => /\ EarlierKept(st.parser, q)
       /\ st.info.id \in CueLeaves
            => OnlyFieldChanged(st.parser, q, CueField(st.info.id))

\* C18: a dispatched CueTime, CueTrack or CueClusterPosition changes in the
\* cue table nothing but its own field of the cue point appended last: the
\* length of the list and every other cue point stay, and with no cue point
\* appended yet the table stays as it is.  No dispatched element changes a
\* cue point other than the last.
C18_LeafWritesLastCuePoint ==
  [][op' = "feed"
       => \A ss \in {FeedSteps} :
            \A i \in 1..Len(ss) :
              \A st \in {ss[i]} : \A q \in {AfterStep(ss, i)} :
                LeafStepKeeps(st, q)]_vars

\* the document whose Cues begin with a CueTime ahead of the first CuePoint
\* was fed to its end: the list holds the one cue point of the document
C18_Witness ==
  /\ Fed
  /\ doc.kind = "leaf_first"
  /\ res = GST_MATROSKA_PARSER_DONE
  /\ parser.array = <<CueOf(CueB)>>

\* the iteration reads a leaf whose payload size is outside 1..8
BadLeafStep(st) == ReadsLeaf(st) /\ st.info.size \notin 1..8

\* the codes that tell the caller of an error
ErrorResults ==
  {GST_MATROSKA_PARSER_ERROR_PARAM, GST_MATROSKA_PARSER_ERROR,
   GST_MATROSKA_PARSER_NOT_SUPPORTED}

\* C19: a dispatched TimecodeScale, Duration, CueTime, CueTrack or
\* CueClusterPosition whose payload size is outside 1..8 ends the feed with
\* an error result: no element behind it is read, and the feed returns
\* neither OK nor DONE.
C19_BadLeafSizeIsError ==
  [][op' = "feed"
       => \A ss \in {FeedSteps} :
            \A i \in 1..Len(ss) :
              BadLeafStep(ss[i]) => (i = Len(ss) /\ res' \in ErrorResults)]_vars

\* the iteration st went on to the iteration nx: it consumed 2 bytes or
\* more, and the remaining count fell by what it consumed, not below zero
StepConsumes(st, nx) ==
  /\ Dispatched(st)
  /\ nx.offset - st.offset >= 2
  /\ st.len - nx.len = nx.offset - st.offset
  /\ nx.len < st.len
  /\ nx.len >= 0

\* how many of the iterations ss consumed an element: all but the last,
\* and the last as well when the feed ended at the end of the Cues region
Consuming(ss) == IF trace'.stop = "cues" THEN Len(ss) ELSE Len(ss) - 1

\* C20: a feed comes to its end: every iteration of the extraction loop
\* either returns or consumes 2 bytes or more and lowers the remaining
\* count by as much, never below zero, the count starting at the bytes
\* available; so no more iterations consume an element than half the bytes
\* available.
C20_LoopTerminates ==
  [][op' = "feed"
       => \A ss \in {FeedSteps} :
            /\ \A i \in 1..(Len(ss) - 1) : StepConsumes(ss[i], ss[i + 1])
            /\ \A i \in 1..Len(ss) : ss[i].len <= avail
            /\ Consuming(ss) <= avail \div 2]_vars

\* the well-formed document of two cues was fed whole: fifteen elements
\* were consumed, up to the 4 bytes of the Cluster id
C20_Witness ==
  /\ FedWhole
  /\ doc.kind = "wellformed"
  /\ Len(doc.cues) = 2
  /\ trace.stop = "cues"
  /\ parser.consume = Len(stream) - 4
  /\ parser.offset = parser.consume

====
